---- MODULE Spec2Model ----
(***************************************************************************)
(* Model of the survey form (SurveyForm component) and of the submission   *)
(* helper (submit-form.ts): the six-step wizard, the insert of the survey  *)
(* record and the bounded polling for the match envelope.                  *)
(*                                                                         *)
(* Strings are sequences of one-character strings.  React state updates    *)
(* made by one handler (or by one continuation after an await) are applied *)
(* together, followed by the effect whose dependencies changed.            *)
(* lastAlert is the alert raised by the component's latest step ("none"    *)
(* when that step raised none); pollLog is the latest outcome logged by    *)
(* checkForMatches.                                                        *)
(*                                                                         *)
(* PipelineSpec and ResubmitSpec call submitUserForm directly on families  *)
(* of responses (attribute scores and quality metrics); MatchSpec runs the *)
(* scorer and the ranker that produce the match envelope.                  *)
(***************************************************************************)
EXTENDS Integers, Sequences, FiniteSets, TLC

VARIABLES currentStep, loading, submitted, processing, userId, matchData,
          pollAttempts, formData, mounted, timers, cleanupHandle,
          timersArmed, inFlightReads, readsIssued, pendingInserts,
          submitCalls, insertsIssued, editsWhileLoading, store, lastAlert,
          pollLog,
          response, inserted, clock, callResult, rankInput, rankOutput

\* The variables of the submission pipeline taken alone (submitUserForm
\* called on a response) and of one ranking run.
pureVars == <<response, inserted, clock, callResult, rankInput, rankOutput>>

vars == <<currentStep, loading, submitted, processing, userId, matchData,
          pollAttempts, formData, mounted, timers, cleanupHandle,
          timersArmed, inFlightReads, readsIssued, pendingInserts,
          submitCalls, insertsIssued, editsWhileLoading, store, lastAlert,
          pollLog, response, inserted, clock, callResult, rankInput, rankOutput>>

(* ------------------------------ bounds --------------------------------- *)
\* Submit clicks in one form session.
MaxSubmits == 2
\* Field edits made while an insert is in flight.
MaxLoadingEdits == 1

(* ------------------------- program constants --------------------------- *)
totalSteps == 6
maxAttempts == 20
MinDetailLength == 20
\* userId = null
NoUser == 0
\* matchData = null, and a record whose user_matches column is not set
NoEnvelope == [kind |-> "null"]

(* ------------------------------ strings -------------------------------- *)
Text(n) == [i \in 1..n |-> "x"]
EmptyStr == << >>

\* JavaScript truthiness of a string: only '' is falsy.
TruthyStr(s) == s # EmptyStr
\* JavaScript truthiness of the user_matches column: null is falsy, an
\* envelope object is truthy (also one whose matches array is empty).
Truthy(v) == v.kind # "null"

\* [^\s@]+
NoSpaceNoAt(s) == /\ Len(s) >= 1
                  /\ \A i \in 1..Len(s) : s[i] \notin {" ", "@"}

\* /^[^\s@]+@[^\s@]+\.[^\s@]+$/.test(s)
emailRegexTest(s) ==
    \E i \in 1..Len(s) : \E j \in 1..Len(s) :
        /\ i < j
        /\ s[i] = "@"
        /\ s[j] = "."
        /\ NoSpaceNoAt(SubSeq(s, 1, i - 1))
        /\ NoSpaceNoAt(SubSeq(s, i + 1, j - 1))
        /\ NoSpaceNoAt(SubSeq(s, j + 1, Len(s)))

(* ------------------------------ the form ------------------------------- *)
RequiredFields == {"email", "firstName", "lastName", "jobCareer",
                   "lifeAchievements", "dreamBuilding", "communitySpace",
                   "coreValues", "qualitiesSeek", "dealBreakers",
                   "skillsAbilities"}

\* The step of the wizard whose page renders the input of a field.
FieldStep(f) ==
    CASE f \in {"firstName", "lastName", "email"} -> 1
      [] f \in {"jobCareer", "lifeAchievements", "skillsAbilities"} -> 2
      [] f \in {"dreamBuilding", "communitySpace"} -> 3
      [] f \in {"coreValues", "qualitiesSeek", "dealBreakers",
                 "spirituality", "familyOrientation", "teamwork"} -> 5
      [] f = "startVillage" -> 3
      [] f \in {"offGridVillage", "nomadicTribe", "businessStartup",
                 "wellnessCenter", "spiritualCenter", "techHub",
                 "startupNation"} -> 4
      [] f \in {"ambition", "wealthOrientation", "agency", "preparedness",
                 "locationFreedom", "existingCommunity", "empathy"} -> 6

\* What the user may type into a field.
FieldInputs(f) ==
    CASE f \in {"firstName", "lastName"} -> {EmptyStr, <<"a">>}
      [] f = "email" -> {EmptyStr, <<"a", "@", "b">>,
                         <<"a", "@", "b", ".", "c">>}
      [] f \in {"jobCareer", "communitySpace"} ->
             {EmptyStr, Text(MinDetailLength - 1), Text(MinDetailLength)}
      [] f \in {"lifeAchievements", "dreamBuilding"} ->
             {EmptyStr, Text(MinDetailLength)}
      [] OTHER -> {EmptyStr, <<"x">>}

InitialFormData == [f \in RequiredFields |-> EmptyStr]

\* validateCurrentStep, case 1: the alert it raises, "none" for true.
ValidateStep1(fd) ==
    IF ~TruthyStr(fd["firstName"]) \/ ~TruthyStr(fd["lastName"])
       \/ ~TruthyStr(fd["email"])
    THEN "validation"
    ELSE IF ~emailRegexTest(fd["email"]) THEN "validation"
    ELSE "none"

\* validateCurrentStep, case 2.
ValidateStep2(fd) ==
    IF ~TruthyStr(fd["jobCareer"]) \/ ~TruthyStr(fd["lifeAchievements"])
       \/ ~TruthyStr(fd["skillsAbilities"])
    THEN "validation"
    ELSE IF Len(fd["jobCareer"]) < MinDetailLength
            \/ Len(fd["lifeAchievements"]) < MinDetailLength
    THEN "validation"
    ELSE "none"

\* A step-3 check that lets every response through.
ValidateStep3_NoCheck(fd) == "none"

\* validateCurrentStep, case 3.
ValidateStep3(fd) ==
    IF ~TruthyStr(fd["dreamBuilding"]) \/ ~TruthyStr(fd["communitySpace"])
    THEN "validation"
    ELSE IF Len(fd["dreamBuilding"]) < MinDetailLength
            \/ Len(fd["communitySpace"]) < MinDetailLength
    THEN "validation"
    ELSE "none"

\* A step-5 check that lets every response through.
ValidateStep5_NoCheck(fd) == "none"

\* validateCurrentStep, case 5.
ValidateStep5(fd) ==
    IF ~TruthyStr(fd["coreValues"]) \/ ~TruthyStr(fd["qualitiesSeek"])
       \/ ~TruthyStr(fd["dealBreakers"])
    THEN "validation"
    ELSE "none"

\* validateCurrentStep: the alert it raises, "none" when it returns true.
validateCurrentStep(step, fd) ==
    CASE step = 1 -> ValidateStep1(fd)
      [] step = 2 -> ValidateStep2(fd)
      [] step = 3 -> ValidateStep3(fd)
      [] step = 5 -> ValidateStep5(fd)
      [] OTHER -> "none"

\* A form that stays on screen after the submission.
FormRendered_AfterSubmission == mounted

\* The form (inputs and navigation buttons) is on screen.
FormRendered == mounted /\ ~submitted

(* ------------------------- the polling effect -------------------------- *)
Deps(p, u, a) == <<p, u, a>>

NoTimers == {}

\* A cleanup that leaves the timer armed.
clearTimeout_Kept(ts, h) == ts

\* clearTimeout(timer) in the cleanup the effect returned; handle 0 stands
\* for an effect run that returned early, without a cleanup.
clearTimeout(ts, h) == {t \in ts : t.id # h}

\* useEffect(..., [processing, userId, pollAttempts]): when a dependency
\* changed, the previous cleanup runs and the effect body runs again.
RunEffect(old, new, ts, h, armed) ==
    IF old = new
    THEN [timers |-> ts, cleanupHandle |-> h, timersArmed |-> armed]
    ELSE IF new[1] /\ new[2] # NoUser
         THEN [timers |-> clearTimeout(ts, h) \cup
                          {[id |-> armed + 1, userId |-> new[2],
                            pollAttempts |-> new[3]]},
               cleanupHandle |-> armed + 1,
               timersArmed |-> armed + 1]
         ELSE [timers |-> clearTimeout(ts, h), cleanupHandle |-> 0,
               timersArmed |-> armed]

(* ------------------------ submission helpers --------------------------- *)
\* A submit button that stays enabled while the insert is in flight.
SubmitDisabled_Never == FALSE

\* The submit button is rendered with disabled={loading}.
SubmitDisabled == loading

\* An answer of the store that has not been produced yet, and a failure.
PendingResp == [status |-> "pending"]
ErrorResp == [status |-> "error"]

\* A continuation that forgets setUserId.
HandleSubmitSuccess_NoUserId(user) ==
    [userId |-> NoUser, submitted |-> TRUE, processing |-> TRUE]

\* handleSubmit after submitUserForm resolved with the stored row.
HandleSubmitSuccess(user) ==
    [userId |-> user.id, submitted |-> TRUE, processing |-> TRUE]

\* A catch block that still marks the form as submitted.
HandleSubmitCatch_Submitted(u, s, p) ==
    [userId |-> u, submitted |-> TRUE, processing |-> p]

\* handleSubmit's catch block: it alerts and sets no state.
HandleSubmitCatch(u, s, p) ==
    [userId |-> u, submitted |-> s, processing |-> p]

(* -------------------------- polling helpers ---------------------------- *)
\* The match envelopes the external matcher may attach to a record.
Envelopes ==
    {[kind |-> "envelope", matches |-> << >>, above_threshold |-> 0,
      total_evaluated |-> 1],
     [kind |-> "envelope", matches |-> <<[user_id |-> 9, score |-> 80]>>,
      above_threshold |-> 1, total_evaluated |-> 1]}

\* checkForMatches testing the ceiling before the match field.
PollDecision_CeilingFirst(userData, attempts) ==
    IF attempts >= maxAttempts THEN "timeout"
    ELSE IF Truthy(userData.user_matches) THEN "matched"
    ELSE "again"

\* The branch checkForMatches takes on the record it read.
PollDecision(userData, attempts) ==
    IF Truthy(userData.user_matches) THEN "matched"
    ELSE IF attempts >= maxAttempts THEN "timeout"
    ELSE "again"

\* A setter that keeps only the matches array of the envelope.
MatchDataFrom_MatchesOnly(userData) ==
    [kind |-> "envelope", matches |-> userData.user_matches.matches]

\* setMatchData(userData.user_matches)
MatchDataFrom(userData) == userData.user_matches

\* An updater that does not count the attempt.
NextPollAttempts_Same(prev) == prev

\* setPollAttempts(prev => prev + 1)
NextPollAttempts(prev) == prev + 1

\* A catch block that raises the timeout notice.
PollCatchAlert_Timeout == "timeout"

\* The catch block of checkForMatches logs the error and raises no alert.
PollCatchAlert == "none"

(* ------------------------- submitUserForm ------------------------------ *)
\* A JavaScript number that is a quotient of integers, kept as the exact
\* value num / den; the stored double is that value rounded by each
\* floating-point operation that produced it.  Rounding is monotonic, so
\* comparisons with whole numbers are those of the exact values.
Rat(n, d) == [num |-> n, den |-> d]
RatEq(a, b) == a.num * b.den = b.num * a.den
RatLeq(a, b) == a.num * b.den <= b.num * a.den
Whole(n) == Rat(n, 1)

\* Math.abs
Abs(x) == IF x < 0 THEN -x ELSE x

\* Bits of the fraction of a double (its significand has one more).
FractionBits == 52

\* The largest i with 2^i * d <= n, for n >= d > 0: the binary exponent of
\* the quotient n / d.
RECURSIVE Log2Floor(_, _)
Log2Floor(n, d) == IF 2 * d <= n THEN 1 + Log2Floor(n, 2 * d) ELSE 0

RECURSIVE Pow2(_)
Pow2(k) == IF k = 0 THEN 1 ELSE 2 * Pow2(k - 1)

\* 2^k modulo d
RECURSIVE Pow2Mod(_, _)
Pow2Mod(k, d) == IF k = 0 THEN 1 % d ELSE (2 * Pow2Mod(k - 1, d)) % d

\* The double n / d, for whole n >= d > 0 and odd d, has the significand
\* m = round(n * 2^k / d) with k = FractionBits - Log2Floor(n, d) (no tie
\* arises for odd d).  QuotientError is d * m - n * 2^k: what the exact
\* product of d and that double exceeds n by, in units of 2^-k.
QuotientError(n, d) ==
    LET k == FractionBits - Log2Floor(n, d)
        rem == ((n % d) * Pow2Mod(k, d)) % d
    IN  IF 2 * rem < d THEN -rem ELSE d - rem

\* d * (n / d) === n in double arithmetic: the exact product rounds to n
\* when it lies within half a unit in the last place of n (a tie goes to
\* n, whose significand is even); below a power of two the unit halves.
ProductRestores(n, d) ==
    LET i == Log2Floor(n, d)
        j == Log2Floor(n, 1)
        e == QuotientError(n, d)
    IN  IF e < 0 /\ n = Pow2(j)
        THEN 4 * (-e) <= Pow2(j - i)
        ELSE 2 * Abs(e) <= Pow2(j - i)

\* q.den * q === s in double arithmetic, for the double q = q.num / q.den.
TimesDenIs(q, s) == q.num = s /\ ProductRestores(q.num, q.den)

\* The eighteen Likert fields of FormData.
LikertFields == {"startVillage", "spirituality", "ambition",
                 "familyOrientation", "wealthOrientation", "teamwork",
                 "agency", "preparedness", "locationFreedom",
                 "existingCommunity", "empathy", "offGridVillage",
                 "nomadicTribe", "businessStartup", "wellnessCenter",
                 "spiritualCenter", "techHub", "startupNation"}

\* The eight free-text fields of FormData.
FreeTextFields == {"jobCareer", "lifeAchievements", "dreamBuilding",
                   "communitySpace", "coreValues", "qualitiesSeek",
                   "dealBreakers", "skillsAbilities"}

\* A free-text field that holds null instead of a string.
NullValue == <<"null">>
\* typeof val === 'string'
IsString(v) == v # NullValue
\* JavaScript truthiness of a field value: '' and null are falsy.
TruthyVal(v) == v # EmptyStr /\ v # NullValue

\* const mcResponses = { ... }
mcResponses(fd) ==
    [start_village |-> fd["startVillage"],
     spirituality |-> fd["spirituality"],
     ambition |-> fd["ambition"],
     family_orientation |-> fd["familyOrientation"],
     wealth_orientation |-> fd["wealthOrientation"],
     teamwork |-> fd["teamwork"],
     agency |-> fd["agency"],
     preparedness |-> fd["preparedness"],
     location_freedom |-> fd["locationFreedom"],
     existing_community |-> fd["existingCommunity"],
     empathy |-> fd["empathy"],
     interest_off_grid |-> fd["offGridVillage"],
     interest_nomadic |-> fd["nomadicTribe"],
     interest_business |-> fd["businessStartup"],
     interest_wellness |-> fd["wellnessCenter"],
     interest_spiritual |-> fd["spiritualCenter"],
     interest_tech_hub |-> fd["techHub"],
     interest_startup_nation |-> fd["startupNation"]]

\* const freeResponses = { ... }
freeResponses(fd) ==
    [job_career |-> fd["jobCareer"],
     life_achievements |-> fd["lifeAchievements"],
     dream_building |-> fd["dreamBuilding"],
     community_space |-> fd["communitySpace"],
     core_values |-> fd["coreValues"],
     qualities_seek |-> fd["qualitiesSeek"],
     deal_breakers |-> fd["dealBreakers"],
     skills_abilities |-> fd["skillsAbilities"]]

\* A readiness score taken over two of its three fields.
readinessScore_TwoFields(fd) ==
    Rat(fd["agency"] + fd["preparedness"], 3)

\* readiness_score: (agency + preparedness + locationFreedom) / 3
readinessScore(fd) ==
    Rat(fd["agency"] + fd["preparedness"] + fd["locationFreedom"], 3)

\* community_interest_avg: (the seven interest fields) / 7
communityInterestAvg(fd) ==
    Rat(fd["offGridVillage"] + fd["nomadicTribe"] + fd["businessStartup"]
        + fd["wellnessCenter"] + fd["spiritualCenter"] + fd["techHub"]
        + fd["startupNation"], 7)

\* An attribute vector whose seeks_travel dimension reads the field of
\* seeks_return_to_land.
attributeScores_SharedField(fd) ==
    [seeks_new_community |-> fd["startVillage"],
     seeks_high_tech |-> fd["techHub"],
     seeks_return_to_land |-> fd["offGridVillage"],
     seeks_entrepreneurship |-> fd["businessStartup"],
     seeks_spiritual_community |-> fd["spiritualCenter"],
     seeks_health_fitness |-> fd["wellnessCenter"],
     seeks_travel |-> fd["offGridVillage"],
     seeks_breakaway_society |-> fd["startupNation"],
     ambitious |-> fd["ambition"],
     wealth_oriented |-> fd["wealthOrientation"],
     family_oriented |-> fd["familyOrientation"],
     teamwork_oriented |-> fd["teamwork"],
     religious |-> fd["spirituality"],
     high_agency |-> fd["agency"],
     high_skills |-> fd["preparedness"],
     high_empathy |-> fd["empathy"],
     high_location_freedom |-> fd["locationFreedom"],
     high_resources |-> fd["existingCommunity"],
     readiness_score |-> readinessScore(fd),
     community_interest_avg |-> communityInterestAvg(fd)]

\* const attributeScores = { ... }
attributeScores(fd) ==
    [seeks_new_community |-> fd["startVillage"],
     seeks_high_tech |-> fd["techHub"],
     seeks_return_to_land |-> fd["offGridVillage"],
     seeks_entrepreneurship |-> fd["businessStartup"],
     seeks_spiritual_community |-> fd["spiritualCenter"],
     seeks_health_fitness |-> fd["wellnessCenter"],
     seeks_travel |-> fd["nomadicTribe"],
     seeks_breakaway_society |-> fd["startupNation"],
     ambitious |-> fd["ambition"],
     wealth_oriented |-> fd["wealthOrientation"],
     family_oriented |-> fd["familyOrientation"],
     teamwork_oriented |-> fd["teamwork"],
     religious |-> fd["spirituality"],
     high_agency |-> fd["agency"],
     high_skills |-> fd["preparedness"],
     high_empathy |-> fd["empathy"],
     high_location_freedom |-> fd["locationFreedom"],
     high_resources |-> fd["existingCommunity"],
     readiness_score |-> readinessScore(fd),
     community_interest_avg |-> communityInterestAvg(fd)]

\* A completeness that counts every required field as filled.
calculateCompleteness_AllFilled(fd) ==
    Rat(Cardinality(RequiredFields) * 100, Cardinality(RequiredFields))

\* calculateCompleteness: (filledCount / requiredFields.length) * 100
calculateCompleteness(fd) ==
    LET filledCount == Cardinality({f \in RequiredFields : TruthyVal(fd[f])})
    IN  Rat(filledCount * 100, Cardinality(RequiredFields))

\* lengths.reduce((a, b) => a + b, 0) over the answers named by ks
RECURSIVE SumLengths(_, _)
SumLengths(fr, ks) ==
    IF ks = {} THEN 0
    ELSE LET k == CHOOSE x \in ks : TRUE
         IN  Len(fr[k]) + SumLengths(fr, ks \ {k})

\* An average taken over the non-empty answers only.
calculateAvgResponseLength_NonEmptyOnly(fr) ==
    LET lengths == {k \in DOMAIN fr : TruthyVal(fr[k])}
    IN  IF Cardinality(lengths) = 0 THEN Whole(0)
        ELSE Rat(SumLengths(fr, lengths), Cardinality(lengths))

\* calculateAvgResponseLength: the values that are strings (the empty
\* string is one), their lengths summed and divided by their number.
calculateAvgResponseLength(fr) ==
    LET lengths == {k \in DOMAIN fr : IsString(fr[k])}
    IN  IF Cardinality(lengths) = 0 THEN Whole(0)
        ELSE Rat(SumLengths(fr, lengths), Cardinality(lengths))

\* The largest difference a consistency check lets pass.
ConsistencyTolerance == 3

\* A consistency score whose checks pass below the tolerance only.
calculateConsistency_Strict(mc) ==
    LET checks == <<Abs(mc.start_village - mc.interest_off_grid)
                        < ConsistencyTolerance,
                    Abs(mc.spirituality - mc.interest_spiritual)
                        < ConsistencyTolerance,
                    Abs(mc.ambition - mc.interest_business)
                        < ConsistencyTolerance>>
        passed == Cardinality({i \in 1..Len(checks) : checks[i]})
    IN  Rat(passed * 100, Len(checks))

\* calculateConsistency: (passed / checks.length) * 100
calculateConsistency(mc) ==
    LET checks == <<Abs(mc.start_village - mc.interest_off_grid)
                        <= ConsistencyTolerance,
                    Abs(mc.spirituality - mc.interest_spiritual)
                        <= ConsistencyTolerance,
                    Abs(mc.ambition - mc.interest_business)
                        <= ConsistencyTolerance>>
        passed == Cardinality({i \in 1..Len(checks) : checks[i]})
    IN  Rat(passed * 100, Len(checks))

\* A row whose completeness also counts the time of the call.
userData_Timed(fd, now) ==
    [email |-> fd["email"],
     first_name |-> fd["firstName"],
     last_name |-> fd["lastName"],
     submitted_at |-> now,
     mc_responses |-> mcResponses(fd),
     free_responses |-> freeResponses(fd),
     attribute_scores |-> attributeScores(fd),
     quality_metrics |->
        [completeness |->
            Rat(calculateCompleteness(fd).num + now,
                calculateCompleteness(fd).den),
         response_length_avg |->
            calculateAvgResponseLength(freeResponses(fd)),
         consistency_score |-> calculateConsistency(mcResponses(fd))],
     quality_status |-> "pending",
     should_match |-> FALSE,
     status |-> "new",
     created_at |-> now,
     updated_at |-> now]

\* const userData = { ... }: the row handed to insert by a call made at
\* time now (form_responses repeats mc_responses and free_responses and
\* adds submitted_at).
userData(fd, now) ==
    [email |-> fd["email"],
     first_name |-> fd["firstName"],
     last_name |-> fd["lastName"],
     submitted_at |-> now,
     mc_responses |-> mcResponses(fd),
     free_responses |-> freeResponses(fd),
     attribute_scores |-> attributeScores(fd),
     quality_metrics |->
        [completeness |-> calculateCompleteness(fd),
         response_length_avg |->
            calculateAvgResponseLength(freeResponses(fd)),
         consistency_score |-> calculateConsistency(mcResponses(fd))],
     quality_status |-> "pending",
     should_match |-> FALSE,
     status |-> "new",
     created_at |-> now,
     updated_at |-> now]

\* submitUserForm as handleSubmit calls it: the row handed to insert,
\* reduced to the contact fields, the free_responses object and the quality
\* metrics computed from the text fields.
BuildUserData(fd) ==
    [email |-> fd["email"],
     first_name |-> fd["firstName"],
     last_name |-> fd["lastName"],
     free_responses |-> freeResponses(fd),
     quality_metrics |->
        [completeness |-> calculateCompleteness(fd),
         response_length_avg |->
            calculateAvgResponseLength(freeResponses(fd))]]

(* ---------------------- responses handed to submitUserForm ------------- *)
\* const [formData, setFormData] = useState<FormData>({ ... }): every
\* Likert field starts at 5.
LikertDefault == 5

\* Likert answers: every field at a base value, but for the fields of one
\* set, which hold another value (0 and 11 lie outside the scale).
LikertBases == {1, 5, 10}
LikertValues == {0, 1, 2, 4, 5, 8, 9, 11}
LikertVariedSets ==
    {{f} : f \in LikertFields}
    \cup {{"startVillage", "spirituality", "ambition"},
          {"agency", "preparedness", "locationFreedom"},
          {"offGridVillage", "nomadicTribe"},
          {"offGridVillage", "nomadicTribe", "businessStartup",
           "wellnessCenter", "spiritualCenter", "techHub", "startupNation"}}
LikertAnswers ==
    {[f \in LikertFields |-> IF f \in S THEN v ELSE b] :
        b \in LikertBases, v \in LikertValues, S \in LikertVariedSets}

\* Required fields left empty: up to three of them, or all but one at most.
MissingSets ==
    {S \in SUBSET RequiredFields :
        Cardinality(S) <= 3 \/ Cardinality(S) >= Cardinality(RequiredFields) - 1}
FilledText == Text(MinDetailLength)
ShortText == Text(2)
MissingAnswers ==
    {[f \in RequiredFields |-> IF f \in S THEN EmptyStr ELSE FilledText] :
        S \in MissingSets}

\* Free-text answers: at most one long and one short answer, the others all
\* empty or all null; the contact fields are filled.
FreeTextAnswers ==
    {[f \in RequiredFields |->
        IF f \in L THEN FilledText
        ELSE IF f \in S THEN ShortText
        ELSE IF f \in FreeTextFields THEN e
        ELSE FilledText] :
        L \in {X \in SUBSET FreeTextFields : Cardinality(X) <= 1},
        S \in {X \in SUBSET FreeTextFields : Cardinality(X) <= 1},
        e \in {EmptyStr, NullValue}}

\* A response: the text answers and the Likert answers in one record.
Response(text, likert) ==
    [f \in RequiredFields \cup LikertFields |->
        IF f \in RequiredFields THEN text[f] ELSE likert[f]]

AllFilled == [f \in RequiredFields |-> FilledText]
AllDefault == [f \in LikertFields |-> LikertDefault]

\* The form's initial state, as a response.
InitialResponse == Response(InitialFormData, AllDefault)

\* Likert answers whose three consistency pairs differ by 3, by 4 and by 0.
MixedPairs ==
    [f \in LikertFields |->
        CASE f = "startVillage" -> LikertDefault + 3
          [] f = "spirituality" -> LikertDefault + 4
          [] OTHER -> LikertDefault]

Responses ==
    {Response(AllFilled, l) : l \in LikertAnswers \cup {MixedPairs}}
    \cup {Response(t, AllDefault) : t \in MissingAnswers \cup FreeTextAnswers}

\* The users who submit one after another.
Users ==
    {InitialResponse,
     Response(AllFilled, AllDefault),
     Response(AllFilled, [f \in LikertFields |->
                            IF f = "agency" THEN 9 ELSE LikertDefault])}

\* Calls of submitUserForm in one run.
MaxCalls == 3

\* rankInput = none: no ranking run was asked for.
NoRankInput == [kind |-> "null"]

(* ---------------- pairwise scoring and ranking (matcher) --------------- *)
\* The matcher itself is not part of the component sources: MatchDisplay
\* declares the shape of what it produces (MatchDetails, Match, MatchData).
\* score and rank follow the algorithm of the design, steps 1 to 6, and
\* the ranker's contract; the weights, thresholds, bonus and penalties are
\* configuration, given here by placeholder tables.

\* The eighteen dimensions of an attribute vector.
AttributeDims ==
    {"seeks_new_community", "seeks_high_tech", "seeks_return_to_land",
     "seeks_entrepreneurship", "seeks_spiritual_community",
     "seeks_health_fitness", "seeks_travel", "seeks_breakaway_society",
     "ambitious", "wealth_oriented", "family_oriented", "teamwork_oriented",
     "religious", "high_agency", "high_skills", "high_empathy",
     "high_location_freedom", "high_resources"}

\* The weight table: no dimension is listed, so each has the default weight.
DefaultWeight == 1
Weight(d) == DefaultWeight

\* The largest difference of two values of the scale 1 to 10.
MaxDifference == 9

\* Step 1: the weighted sum of absolute differences over the dimensions ds.
RECURSIVE WeightedSum(_, _, _)
WeightedSum(s, c, ds) ==
    IF ds = {} THEN 0
    ELSE LET d == CHOOSE x \in ds : TRUE
         IN  Weight(d) * Abs(s[d] - c[d]) + WeightedSum(s, c, ds \ {d})

WeightedDistance(s, c) == WeightedSum(s, c, AttributeDims)

\* The largest possible weighted distance.
RECURSIVE WeightTotal(_)
WeightTotal(ds) ==
    IF ds = {} THEN 0
    ELSE LET d == CHOOSE x \in ds : TRUE
         IN  Weight(d) * MaxDifference + WeightTotal(ds \ {d})

MaxDistance == WeightTotal(AttributeDims)

\* A similarity that maps distance 0 to 50.
BaseSimilarity_FromHalf(wd) ==
    IF wd >= MaxDistance THEN Whole(0)
    ELSE Rat(50 * (MaxDistance - wd), MaxDistance)

\* Step 2: max(0, 100 - weighted_distance * k), with k = 100 / MaxDistance,
\* so that the largest distance maps to 0 and distance 0 to 100.
BaseSimilarity(wd) ==
    IF wd >= MaxDistance THEN Whole(0)
    ELSE Rat(100 * (MaxDistance - wd), MaxDistance)

\* Step 3: the high-value dimensions, the high threshold and the bonus per
\* dimension shared high.
HighValueDims == {"seeks_new_community", "seeks_return_to_land",
                  "seeks_spiritual_community", "seeks_entrepreneurship"}
HighThreshold == 7
BonusPerDimension == 2

SharedHigh(s, c) ==
    {d \in HighValueDims : s[d] >= HighThreshold /\ c[d] >= HighThreshold}

AlignmentBonus(s, c) == BonusPerDimension * Cardinality(SharedHigh(s, c))

\* Step 4: the table of dimension pairs, each with its category, the gap
\* beyond which a pair fires and the penalty it adds.
PairTable ==
    {[label |-> "freedom_vs_family", a |-> "high_location_freedom",
      b |-> "family_oriented", category |-> "opposition"],
     [label |-> "faith_vs_spiritual_community", a |-> "religious",
      b |-> "seeks_spiritual_community", category |-> "alignment"]}
PairGap == 6
PairPenalty == 10

\* A pair fires when one profile is high on its first dimension and the
\* other low on its second (or the reverse), by more than the gap.
PairFires(p, s, c) ==
    \/ Abs(s[p.a] - c[p.b]) > PairGap
    \/ Abs(c[p.a] - s[p.b]) > PairGap

FiredPairs(s, c, cat) ==
    {p.label : p \in {q \in PairTable : q.category = cat /\ PairFires(q, s, c)}}

PairPenalties(s, c, cat) == PairPenalty * Cardinality(FiredPairs(s, c, cat))

\* Step 5: no penalty within the tolerance band, then one point per year
\* beyond it, up to the cap.
AgeTolerance == 5
AgePenaltyCap == 20
AgePenalty(diff) ==
    IF diff <= AgeTolerance THEN 0
    ELSE IF diff - AgeTolerance >= AgePenaltyCap THEN AgePenaltyCap
    ELSE diff - AgeTolerance

\* q + n, for a whole n
RatPlus(q, n) == Rat(q.num + n * q.den, q.den)

\* A final score that is not clamped.
Clamp_Unclamped(q, lo, hi) == q

\* clamp(q, lo, hi)
Clamp(q, lo, hi) ==
    IF RatLeq(q, Whole(lo)) THEN Whole(lo)
    ELSE IF RatLeq(Whole(hi), q) THEN Whole(hi)
    ELSE q

\* score(subject, candidate, subjectAge, candidateAge): the MatchDetails.
score(s, c, sAge, cAge) ==
    LET wd == WeightedDistance(s, c)
        base == BaseSimilarity(wd)
        bonus == AlignmentBonus(s, c)
        ap == PairPenalties(s, c, "alignment")
        op == PairPenalties(s, c, "opposition")
        diff == Abs(sAge - cAge)
        agep == AgePenalty(diff)
    IN  [base_similarity |-> base,
         weighted_distance |-> wd,
         alignment_bonus |-> bonus,
         alignment_penalty |-> ap,
         opposition_penalty |-> op,
         age_penalty |-> agep,
         age_difference |-> diff,
         shared_high_interests |-> SharedHigh(s, c),
         alignment_issues |-> FiredPairs(s, c, "alignment"),
         opposing_values |-> FiredPairs(s, c, "opposition"),
         final_score |-> Clamp(RatPlus(base, bonus - ap - op - agep), 0, 100)]

\* The tag of the configuration above.
AlgorithmVersion == "v1"

\* A scoring pass that does not leave the subject out.
ScoredCandidates_WithSubject(subjectId, subjectVector, subjectAge, pool) ==
    {[user_id |-> pool[i].id,
      score |-> score(subjectVector, pool[i].vector,
                      subjectAge, pool[i].age).final_score,
      details |-> score(subjectVector, pool[i].vector,
                        subjectAge, pool[i].age)] :
        i \in 1..Len(pool)}

\* The pool entries scored for a subject: every candidate but the subject
\* itself, each with its MatchDetails and its final score.
ScoredCandidates(subjectId, subjectVector, subjectAge, pool) ==
    {[user_id |-> pool[i].id,
      score |-> score(subjectVector, pool[i].vector,
                      subjectAge, pool[i].age).final_score,
      details |-> score(subjectVector, pool[i].vector,
                        subjectAge, pool[i].age)] :
        i \in {k \in 1..Len(pool) : pool[k].id # subjectId}}

\* An order with ties broken by descending candidate id.
Before_DescendingId(m, n) ==
    \/ ~RatLeq(m.score, n.score)
    \/ RatEq(m.score, n.score) /\ m.user_id >= n.user_id

\* m comes no later than n: a higher final score first, and the lower
\* candidate id first among equal scores.
Before(m, n) ==
    \/ ~RatLeq(m.score, n.score)
    \/ RatEq(m.score, n.score) /\ m.user_id <= n.user_id

\* The entries of ms in that order.
RECURSIVE SortMatches(_)
SortMatches(ms) ==
    IF ms = {} THEN << >>
    ELSE LET first == CHOOSE m \in ms : \A n \in ms : Before(m, n)
         IN  <<first>> \o SortMatches(ms \ {first})

\* The first n entries of a sequence.
Take(seq, n) == SubSeq(seq, 1, IF n < Len(seq) THEN n ELSE Len(seq))

\* rank(subjectId, subjectVector, subjectAge, pool, threshold, limit): the
\* match envelope.
rank(subjectId, subjectVector, subjectAge, pool, threshold, limit) ==
    LET scored == ScoredCandidates(subjectId, subjectVector, subjectAge, pool)
        qualifying == {m \in scored : RatLeq(Whole(threshold), m.score)}
    IN  [kind |-> "envelope",
         matches |-> Take(SortMatches(qualifying), limit),
         above_threshold |-> Cardinality(qualifying),
         total_evaluated |-> Cardinality(scored),
         algorithm_version |-> AlgorithmVersion]

(* ------------------------- inputs of a ranking run --------------------- *)
\* Candidates in a pool.
MaxPool == 2

Uniform(v) == [d \in AttributeDims |-> v]

\* A profile high on location freedom and low on family orientation.
FreeAndUnattached ==
    [d \in AttributeDims |->
        CASE d = "high_location_freedom" -> 10
          [] d = "family_oriented" -> 1
          [] OTHER -> 5]

Vectors == {Uniform(10), Uniform(1), Uniform(5), FreeAndUnattached}
SubjectAge == 25
CandidateAges == {25, 40, 55}
Thresholds == {0, 60, 100}
Limits == {1, 2}

\* Pools of n candidates, in order of arrival; their ids ascend or descend
\* with arrival.
PoolsOf(n) ==
    {[i \in 1..n |-> [id |-> IF asc THEN i ELSE n + 1 - i,
                      vector |-> f[i][1], age |-> f[i][2]]] :
        f \in [1..n -> Vectors \X CandidateAges], asc \in BOOLEAN}

Pools == UNION {PoolsOf(n) : n \in 0..MaxPool}

\* The subject is the pool's candidate 1, or is not in the pool (id 0).
RankInputs ==
    [kind : {"rank"}, subjectId : {0, 1}, subjectVector : Vectors,
     subjectAge : {SubjectAge}, pool : Pools, threshold : Thresholds,
     limit : Limits]

(* ------------------------------- Init ---------------------------------- *)
\* The component after its first render, but for formData.
FormIdle ==
    /\ currentStep = 1
    /\ loading = FALSE
    /\ submitted = FALSE
    /\ processing = FALSE
    /\ userId = NoUser
    /\ matchData = NoEnvelope
    /\ pollAttempts = 0
    /\ mounted = TRUE
    /\ timers = NoTimers
    /\ cleanupHandle = 0
    /\ timersArmed = 0
    /\ inFlightReads = {}
    /\ readsIssued = 0
    /\ pendingInserts = {}
    /\ submitCalls = 0
    /\ insertsIssued = 0
    /\ editsWhileLoading = 0
    /\ store = << >>
    /\ lastAlert = "none"
    /\ pollLog = "none"

FormInit ==
    /\ FormIdle
    /\ formData = InitialFormData

\* No call of submitUserForm was made yet.
PipelineIdle ==
    /\ inserted = << >>
    /\ clock = 0
    /\ callResult = "none"

\* The pipeline and the ranking at rest.
PureIdle ==
    /\ PipelineIdle
    /\ rankInput = NoRankInput
    /\ rankOutput = NoEnvelope

Init ==
    /\ FormInit
    /\ response = InitialResponse
    /\ PureIdle

(* ------------------------------ actions -------------------------------- *)
\* onChange of the input of field f, rendered on the page of its step.
updateFormData(f, v) ==
    /\ FormRendered
    /\ currentStep = FieldStep(f)
    /\ v # formData[f]
    /\ loading => editsWhileLoading < MaxLoadingEdits
    /\ formData' = [formData EXCEPT ![f] = v]
    /\ editsWhileLoading' = IF loading THEN editsWhileLoading + 1
                            ELSE editsWhileLoading
    /\ lastAlert' = "none"
    /\ UNCHANGED <<currentStep, loading, submitted, processing, userId,
                   matchData, pollAttempts, mounted, timers, cleanupHandle,
                   timersArmed, inFlightReads, readsIssued, pendingInserts,
                   submitCalls, insertsIssued, store, pollLog>>
    /\ UNCHANGED pureVars

\* Click on Next (rendered while currentStep < totalSteps).
handleNext ==
    /\ FormRendered
    /\ currentStep < totalSteps
    /\ LET alert == validateCurrentStep(currentStep, formData) IN
         /\ currentStep' = IF alert = "none" /\ currentStep < totalSteps
                           THEN currentStep + 1 ELSE currentStep
         /\ lastAlert' = alert
    /\ UNCHANGED <<loading, submitted, processing, userId, matchData,
                   pollAttempts, formData, mounted, timers, cleanupHandle,
                   timersArmed, inFlightReads, readsIssued, pendingInserts,
                   submitCalls, insertsIssued, editsWhileLoading, store,
                   pollLog>>
    /\ UNCHANGED pureVars

\* Click on Back (disabled on the first step).
handleBack ==
    /\ FormRendered
    /\ currentStep # 1
    /\ currentStep' = IF currentStep > 1 THEN currentStep - 1 ELSE currentStep
    /\ lastAlert' = "none"
    /\ UNCHANGED <<loading, submitted, processing, userId, matchData,
                   pollAttempts, formData, mounted, timers, cleanupHandle,
                   timersArmed, inFlightReads, readsIssued, pendingInserts,
                   submitCalls, insertsIssued, editsWhileLoading, store,
                   pollLog>>
    /\ UNCHANGED pureVars

\* Click on the submit button (rendered on the last step): handleSubmit up
\* to the await, with submitUserForm up to the insert request.
handleSubmit ==
    /\ FormRendered
    /\ ~(currentStep < totalSteps)
    /\ ~SubmitDisabled
    /\ submitCalls < MaxSubmits
    /\ currentStep = totalSteps
    /\ loading' = TRUE
    /\ submitCalls' = submitCalls + 1
    /\ insertsIssued' = insertsIssued + 1
    /\ editsWhileLoading' = 0
    /\ pendingInserts' = pendingInserts \cup
           {[n |-> submitCalls + 1, data |-> BuildUserData(formData),
             resp |-> PendingResp]}
    /\ lastAlert' = "none"
    /\ UNCHANGED <<currentStep, submitted, processing, userId, matchData,
                   pollAttempts, formData, mounted, timers, cleanupHandle,
                   timersArmed, inFlightReads, readsIssued, store, pollLog>>
    /\ UNCHANGED pureVars

\* The store executes an insert: it stores the row and answers with it, or
\* it rejects the write.
InsertServed(p, ok) ==
    /\ p \in pendingInserts
    /\ p.resp = PendingResp
    /\ IF ok
       THEN /\ store' = Append(store, [id |-> Len(store) + 1,
                                       data |-> p.data,
                                       user_matches |-> NoEnvelope])
            /\ pendingInserts' = (pendingInserts \ {p}) \cup
                   {[p EXCEPT !.resp = [status |-> "ok",
                                        id |-> Len(store) + 1]]}
       ELSE /\ store' = store
            /\ pendingInserts' = (pendingInserts \ {p}) \cup
                   {[p EXCEPT !.resp = ErrorResp]}
    /\ UNCHANGED <<currentStep, loading, submitted, processing, userId,
                   matchData, pollAttempts, formData, mounted, timers,
                   cleanupHandle, timersArmed, inFlightReads, readsIssued,
                   submitCalls, insertsIssued, editsWhileLoading, lastAlert,
                   pollLog>>
    /\ UNCHANGED pureVars

\* The insert's answer arrives: submitUserForm returns the row or rethrows,
\* and handleSubmit runs its try continuation or its catch, then finally.
\* State setters of an unmounted component have no effect.
InsertReturns(p) ==
    /\ p \in pendingInserts
    /\ p.resp # PendingResp
    /\ pendingInserts' = pendingInserts \ {p}
    /\ editsWhileLoading' = 0
    /\ LET st == IF p.resp.status = "ok" THEN HandleSubmitSuccess(p.resp)
                 ELSE HandleSubmitCatch(userId, submitted, processing)
           eff == RunEffect(Deps(processing, userId, pollAttempts),
                            Deps(st.processing, st.userId, pollAttempts),
                            timers, cleanupHandle, timersArmed)
       IN  /\ lastAlert' = IF p.resp.status = "ok" THEN "none"
                           ELSE "submitError"
           /\ IF mounted
              THEN /\ userId' = st.userId
                   /\ submitted' = st.submitted
                   /\ processing' = st.processing
                   /\ loading' = FALSE
                   /\ timers' = eff.timers
                   /\ cleanupHandle' = eff.cleanupHandle
                   /\ timersArmed' = eff.timersArmed
              ELSE UNCHANGED <<userId, submitted, processing, loading,
                               timers, cleanupHandle, timersArmed>>
    /\ UNCHANGED <<currentStep, matchData, pollAttempts, formData, mounted,
                   inFlightReads, readsIssued, submitCalls, insertsIssued,
                   store, pollLog>>
    /\ UNCHANGED pureVars

\* A repeating timer: it stays armed after it fired.
TimerFires_KeepsTimer(t) ==
    /\ t \in timers
    /\ timers' = timers
    /\ readsIssued' = readsIssued + 1
    /\ inFlightReads' = inFlightReads \cup
           {[n |-> readsIssued + 1, userId |-> t.userId,
             pollAttempts |-> t.pollAttempts]}
    /\ lastAlert' = "none"
    /\ UNCHANGED <<currentStep, loading, submitted, processing, userId,
                   matchData, pollAttempts, formData, mounted, cleanupHandle,
                   timersArmed, pendingInserts, submitCalls, insertsIssued,
                   editsWhileLoading, store, pollLog>>
    /\ UNCHANGED pureVars

\* The poll timer fires: checkForMatches starts and requests the record.
TimerFires(t) ==
    /\ t \in timers
    /\ timers' = timers \ {t}
    /\ readsIssued' = readsIssued + 1
    /\ inFlightReads' = inFlightReads \cup
           {[n |-> readsIssued + 1, userId |-> t.userId,
             pollAttempts |-> t.pollAttempts]}
    /\ lastAlert' = "none"
    /\ UNCHANGED <<currentStep, loading, submitted, processing, userId,
                   matchData, pollAttempts, formData, mounted, cleanupHandle,
                   timersArmed, pendingInserts, submitCalls, insertsIssued,
                   editsWhileLoading, store, pollLog>>
    /\ UNCHANGED pureVars

\* getUserById as the store executes it: the record as it is now, or a
\* failure (always a failure when no record has the id).
ReadAnswer(r, ok) ==
    IF ok /\ r.userId \in 1..Len(store)
    THEN [status |-> "ok", id |-> r.userId,
          user_matches |-> store[r.userId].user_matches]
    ELSE ErrorResp

\* The store answers the read and the answer arrives: the rest of
\* checkForMatches, then the effect.  State setters of an unmounted
\* component have no effect.
ReadReturns(r, ok) ==
    /\ r \in inFlightReads
    /\ inFlightReads' = inFlightReads \ {r}
    /\ LET resp == ReadAnswer(r, ok)
           branch == IF resp.status = "ok"
                     THEN PollDecision(resp, r.pollAttempts)
                     ELSE "error"
           md == IF branch = "matched" THEN MatchDataFrom(resp)
                 ELSE matchData
           pr == IF branch = "again" THEN processing ELSE FALSE
           pa == IF branch = "again" THEN NextPollAttempts(pollAttempts)
                 ELSE pollAttempts
           eff == RunEffect(Deps(processing, userId, pollAttempts),
                            Deps(pr, userId, pa),
                            timers, cleanupHandle, timersArmed)
       IN  /\ pollLog' = branch
           /\ lastAlert' = CASE branch = "timeout" -> "timeout"
                             [] branch = "error" -> PollCatchAlert
                             [] OTHER -> "none"
           /\ IF mounted
              THEN /\ matchData' = md
                   /\ processing' = pr
                   /\ pollAttempts' = pa
                   /\ timers' = eff.timers
                   /\ cleanupHandle' = eff.cleanupHandle
                   /\ timersArmed' = eff.timersArmed
              ELSE UNCHANGED <<matchData, processing, pollAttempts, timers,
                               cleanupHandle, timersArmed>>
    /\ UNCHANGED <<currentStep, loading, submitted, userId, formData,
                   mounted, readsIssued, pendingInserts, submitCalls,
                   insertsIssued, editsWhileLoading, store>>
    /\ UNCHANGED pureVars

\* The external matcher attaches an envelope to a stored record, or
\* replaces the one it attached before.
MatcherWrites(i, e) ==
    /\ i \in 1..Len(store)
    /\ store[i].user_matches # e
    /\ store' = [store EXCEPT ![i].user_matches = e]
    /\ UNCHANGED <<currentStep, loading, submitted, processing, userId,
                   matchData, pollAttempts, formData, mounted, timers,
                   cleanupHandle, timersArmed, inFlightReads, readsIssued,
                   pendingInserts, submitCalls, insertsIssued,
                   editsWhileLoading, lastAlert, pollLog>>
    /\ UNCHANGED pureVars

\* The caller navigates away: the component is torn down and the cleanup of
\* the last effect run is executed.
Unmount ==
    /\ mounted
    /\ mounted' = FALSE
    /\ timers' = clearTimeout(timers, cleanupHandle)
    /\ cleanupHandle' = 0
    /\ lastAlert' = "none"
    /\ UNCHANGED <<currentStep, loading, submitted, processing, userId,
                   matchData, pollAttempts, formData, timersArmed,
                   inFlightReads, readsIssued, pendingInserts, submitCalls,
                   insertsIssued, editsWhileLoading, store, pollLog>>
    /\ UNCHANGED pureVars

Next ==
    \/ \E f \in RequiredFields : \E v \in FieldInputs(f) : updateFormData(f, v)
    \/ handleNext
    \/ handleBack
    \/ handleSubmit
    \/ \E p \in pendingInserts : \E ok \in BOOLEAN : InsertServed(p, ok)
    \/ \E p \in pendingInserts : InsertReturns(p)
    \/ \E t \in timers : TimerFires(t)
    \/ \E r \in inFlightReads : \E ok \in BOOLEAN : ReadReturns(r, ok)
    \/ \E i \in 1..Len(store) : \E e \in Envelopes : MatcherWrites(i, e)
    \/ Unmount

Spec == Init /\ [][Next]_vars

\* The timer fires and every read returns or fails.
Fairness ==
    /\ WF_vars(\E t \in timers : TimerFires(t))
    /\ WF_vars(\E r \in inFlightReads : \E ok \in BOOLEAN : ReadReturns(r, ok))

LiveSpec == Spec /\ Fairness

(* ------------------- submitUserForm called directly -------------------- *)
formVars == <<currentStep, loading, submitted, processing, userId, matchData,
              pollAttempts, formData, mounted, timers, cleanupHandle,
              timersArmed, inFlightReads, readsIssued, pendingInserts,
              submitCalls, insertsIssued, editsWhileLoading, store,
              lastAlert, pollLog>>

\* One call submitUserForm(response): the row is built and handed to
\* insert; the call returns the stored row, or throws when the insert
\* reports an error.  inserted keeps each stored row with the response it
\* was built from.
submitUserForm(ok) ==
    /\ clock < MaxCalls
    /\ clock' = clock + 1
    /\ IF ok
       THEN /\ inserted' = Append(inserted,
                                  [input |-> response,
                                   row |-> userData(response, clock)])
            /\ callResult' = "returned"
       ELSE /\ inserted' = inserted
            /\ callResult' = "threw"
    /\ UNCHANGED <<response, rankInput, rankOutput>>
    /\ UNCHANGED formVars

\* Another user fills the form.
NextUser(r) ==
    /\ clock < MaxCalls
    /\ r # response
    /\ response' = r
    /\ UNCHANGED <<inserted, clock, callResult, rankInput, rankOutput>>
    /\ UNCHANGED formVars

PipelineInit ==
    /\ FormInit
    /\ response \in Responses
    /\ PureIdle

PipelineNext == \E ok \in BOOLEAN : submitUserForm(ok)

\* submitUserForm called on each response of the family.
PipelineSpec == PipelineInit /\ [][PipelineNext]_vars

ResubmitInit ==
    /\ FormInit
    /\ response \in Users
    /\ PureIdle

ResubmitNext ==
    \/ \E ok \in BOOLEAN : submitUserForm(ok)
    \/ \E r \in Users : NextUser(r)

\* Several users submitting one after another.
ResubmitSpec == ResubmitInit /\ [][ResubmitNext]_vars


(* --------------------------- one ranking run --------------------------- *)
\* rank is called on rankInput and its envelope is kept in rankOutput; the
\* pool is only read.
RunRank ==
    /\ rankInput # NoRankInput
    /\ rankOutput = NoEnvelope
    /\ rankOutput' = rank(rankInput.subjectId, rankInput.subjectVector,
                          rankInput.subjectAge, rankInput.pool,
                          rankInput.threshold, rankInput.limit)
    /\ UNCHANGED <<response, inserted, clock, callResult, rankInput>>
    /\ UNCHANGED formVars

MatchInit ==
    /\ FormInit
    /\ response = InitialResponse
    /\ PipelineIdle
    /\ rankInput \in RankInputs
    /\ rankOutput = NoEnvelope

MatchNext == RunRank

\* One ranking run on each input of the family.
MatchSpec == MatchInit /\ [][MatchNext]_vars

(* ------------------------------ rendering ------------------------------ *)
\* What the component renders: the form, or one of the three branches of
\* the submitted view.
RenderedView ==
    IF ~submitted THEN "form"
    ELSE IF Truthy(matchData) THEN "matches"
    ELSE IF processing THEN "processing"
    ELSE "thanks"

(* ------------------------------- claims -------------------------------- *)
\* A row that has all eleven required fields non-empty and an email that
\* matches the email pattern.
CompleteRow(u) ==
    /\ TruthyStr(u.first_name) /\ TruthyStr(u.last_name)
    /\ TruthyStr(u.email)
    /\ \A k \in DOMAIN u.free_responses : TruthyStr(u.free_responses[k])
    /\ emailRegexTest(u.email)

\* C1: once the mounted component is polling (processing with a userId),
\* and the timer fires and every read is answered, processing eventually
\* becomes false (or the component is torn down); checked under LiveSpec.
C1_PollingTerminates ==
    (mounted /\ processing /\ userId # NoUser) ~> (~processing \/ ~mounted)

\* C1 witness: polling ended on the ceiling although no envelope was ever
\* written.
C1_Witness ==
    /\ mounted /\ submitted /\ ~processing /\ pollLog = "timeout"
    /\ \A i \in 1..Len(store) : store[i].user_matches = NoEnvelope

\* C2: a polling session issues at most maxAttempts (20) reads of the
\* record; no 21st read is issued.
C2_AtMostMaxAttemptsReads == readsIssued <= maxAttempts

\* C3: when a read returns (without failing) a record that carries a match
\* envelope, the mounted component stores that envelope in matchData and
\* leaves polling as MATCHED without a timeout notice, whatever the attempt
\* number.
C3_MatchEndsPolling ==
    [][\A r \in inFlightReads :
          (/\ mounted
           /\ r \notin inFlightReads'
           /\ pollLog' # "error"
           /\ Truthy(ReadAnswer(r, TRUE).user_matches))
          => (/\ matchData' = store[r.userId].user_matches
              /\ processing' = FALSE
              /\ pollLog' = "matched"
              /\ lastAlert' = "none"
              /\ timers' = NoTimers)]_vars

\* C3 witness: the envelope was found by the read issued at the ceiling.
C3_Witness ==
    /\ mounted /\ Truthy(matchData) /\ ~processing
    /\ pollAttempts = maxAttempts /\ readsIssued = maxAttempts + 1
    /\ pollLog = "matched"

\* C4: processing implies that userId is the id of a stored record and that
\* the form is submitted; a timer or a read exists only for a stored record;
\* the answer of a successful insert sets userId, submitted and processing.
C4_PendingOnlyAfterPersistence ==
    /\ [](processing => /\ userId # NoUser
                        /\ userId \in 1..Len(store)
                        /\ store[userId].id = userId
                        /\ submitted)
    /\ []((\A t \in timers : t.userId \in 1..Len(store))
          /\ (\A r \in inFlightReads : r.userId \in 1..Len(store))
          /\ (readsIssued > 0 => userId \in 1..Len(store)))
    /\ [][\A p \in pendingInserts :
             (mounted /\ p.resp.status = "ok" /\ p \notin pendingInserts')
             => (/\ userId' = p.resp.id
                 /\ submitted' /\ processing'
                 /\ ~loading')]_vars

\* C4 witness: the submission has just entered polling; no read yet.
C4_Witness ==
    /\ mounted /\ processing /\ userId # NoUser /\ readsIssued = 0
    /\ timers # NoTimers

\* C5: a failed insert is reported once and not retried: when its answer
\* arrives no insert is issued, the store is untouched, the error alert is
\* raised, submitted, processing, userId and matchData keep their initial
\* values, no timer is armed and loading is reset; every call of
\* submitUserForm has issued exactly one insert.
C5_InsertFailureSurfaced ==
    /\ [](insertsIssued = submitCalls)
    /\ [][\A p \in pendingInserts :
             (mounted /\ p.resp = ErrorResp /\ p \notin pendingInserts')
             => (/\ insertsIssued' = insertsIssued
                 /\ pendingInserts' = pendingInserts \ {p}
                 /\ store' = store
                 /\ lastAlert' = "submitError"
                 /\ submitted' = FALSE /\ processing' = FALSE
                 /\ userId' = NoUser /\ matchData' = NoEnvelope
                 /\ timers' = NoTimers /\ inFlightReads' = {}
                 /\ loading' = FALSE)]_vars

\* C5 witness: an insert has failed and its error has been reported.
C5_Witness ==
    /\ mounted /\ lastAlert = "submitError" /\ ~loading /\ ~submitted
    /\ pendingInserts = {} /\ insertsIssued = 1 /\ store = << >>

\* C6: every row handed to insert, and every stored row, has the eleven
\* required fields non-empty and a well-formed email; an insert is issued
\* only for a response that passes the validation of every step; a
\* validation alert is raised without issuing an insert or leaving the step.
C6_ValidationBeforePersistence ==
    /\ []((\A p \in pendingInserts : CompleteRow(p.data))
          /\ (\A i \in 1..Len(store) : CompleteRow(store[i].data)))
    /\ [][insertsIssued' # insertsIssued =>
             \A k \in 1..totalSteps :
                 validateCurrentStep(k, formData) = "none"]_vars
    /\ [][(lastAlert' = "validation" /\ lastAlert' # lastAlert) =>
             (/\ insertsIssued' = insertsIssued
              /\ store' = store
              /\ currentStep' = currentStep)]_vars

\* C6 witness: a validated response has been stored.
C6_Witness ==
    /\ Len(store) = 1 /\ submitted
    /\ \A k \in 1..totalSteps : validateCurrentStep(k, formData) = "none"

C8_NoPartialEnvelope ==
    /\ [](matchData = NoEnvelope \/ matchData \in Envelopes)
    /\ []((RenderedView = "matches") <=> (submitted /\ matchData # NoEnvelope))
    /\ [](matchData # NoEnvelope => pollLog = "matched")
    /\ [][matchData' # matchData =>
             \E r \in inFlightReads :
                /\ r \notin inFlightReads'
                /\ pollLog' = "matched"
                /\ matchData' = ReadAnswer(r, TRUE).user_matches]_vars

\* C8 witness: the match display shows an envelope with a match in it.
C8_Witness ==
    /\ mounted /\ RenderedView = "matches"
    /\ Len(matchData.matches) = 1

\* C9: at most one insert is in flight, at most one row is stored in a form
\* session, and once a row is stored no insert is issued.
C9_SubmittedOnce ==
    /\ [](Cardinality(pendingInserts) <= 1 /\ Len(store) <= 1)
    /\ [][Len(store) >= 1 => insertsIssued' = insertsIssued]_vars

\* C9 witness: a second submit click stored the row after the first insert
\* had failed.
C9_Witness == Len(store) = 1 /\ submitCalls = 2 /\ submitted

\* C10: after the component is torn down no read and no insert is issued;
\* the teardown itself clears the pending timer and touches neither the
\* store nor the requests in flight.
C10_CancellationStopsPolling ==
    /\ [][~mounted => (readsIssued' = readsIssued
                       /\ insertsIssued' = insertsIssued)]_vars
    /\ [][(mounted /\ ~mounted') =>
             (/\ timers' = NoTimers
              /\ store' = store
              /\ inFlightReads' = inFlightReads
              /\ pendingInserts' = pendingInserts)]_vars

\* C10 witness: the component was torn down while a read was in flight.
C10_Witness ==
    /\ ~mounted /\ processing /\ inFlightReads # {} /\ timers = NoTimers

(* ----------------- claims on the submission pipeline ------------------- *)
\* The Likert scale: the buttons 1 to 10 of renderLikertScale.
LikertScale == 1..10
InScale(fd) == \A f \in LikertFields : fd[f] \in LikertScale

\* C11: a response with a Likert field outside [1, 10] is never persisted:
\* no stored row was built from such a response, and a call made on such a
\* response throws.
C11_OutOfScaleNeverPersisted ==
    /\ \A i \in 1..Len(inserted) : InScale(inserted[i].input)
    /\ (~InScale(response) /\ callResult # "none") => callResult = "threw"

\* How many of the keys ks of g hold the value v.
Holders(g, ks, v) == Cardinality({k \in ks : g[k] = v})

\* The two derived scalars of the attribute vector.
DerivedDims == {"readiness_score", "community_interest_avg"}

\* g, over its keys ks, is a one-to-one verbatim copy of the eighteen Likert
\* answers of fd: eighteen keys, and each value is held by as many keys of
\* g as there are Likert fields of fd holding it.
VerbatimCopy(g, ks, fd) ==
    /\ Cardinality(ks) = Cardinality(LikertFields)
    /\ \A f \in LikertFields :
          Holders(g, ks, fd[f]) = Holders(fd, LikertFields, fd[f])

\* C12: in every stored row the eighteen Likert answers are copied
\* verbatim, one-to-one, to eighteen distinct dimensions of attribute_scores
\* (the two derived scalars apart), and likewise to mc_responses.
C12_LikertCopiedVerbatim ==
    \A i \in 1..Len(inserted) :
        LET e == inserted[i]
        IN  /\ VerbatimCopy(e.row.attribute_scores,
                            DOMAIN e.row.attribute_scores \ DerivedDims,
                            e.input)
            /\ VerbatimCopy(e.row.mc_responses,
                            DOMAIN e.row.mc_responses, e.input)

\* A stored row built from a response in which nomadicTribe alone holds 8:
\* its dimension seeks_travel alone holds 8.
C12_Witness ==
    \E i \in 1..Len(inserted) :
        LET e == inserted[i]
        IN  /\ {f \in LikertFields : e.input[f] = 8} = {"nomadicTribe"}
            /\ {d \in DOMAIN e.row.attribute_scores \ DerivedDims :
                   e.row.attribute_scores[d] = 8} = {"seeks_travel"}
            /\ e.row.mc_responses.interest_nomadic = 8

\* agency + preparedness + locationFreedom
ReadinessSum(fd) == fd["agency"] + fd["preparedness"] + fd["locationFreedom"]

\* The sum of the seven community interest answers.
InterestSum(fd) ==
    fd["offGridVillage"] + fd["nomadicTribe"] + fd["businessStartup"]
    + fd["wellnessCenter"] + fd["spiritualCenter"] + fd["techHub"]
    + fd["startupNation"]

\* The two scalars are the quotients of the sums by 3 and by 7, and lie in
\* [1, 10].
MeansInScale(fd, a) ==
    /\ a.readiness_score.den = 3
    /\ RatEq(a.readiness_score, Rat(ReadinessSum(fd), 3))
    /\ a.community_interest_avg.den = 7
    /\ RatEq(a.community_interest_avg, Rat(InterestSum(fd), 7))
    /\ RatLeq(Whole(1), a.readiness_score)
    /\ RatLeq(a.readiness_score, Whole(10))
    /\ RatLeq(Whole(1), a.community_interest_avg)
    /\ RatLeq(a.community_interest_avg, Whole(10))

\* C13 as stated: in every stored row built from Likert answers within
\* [1, 10], readiness_score is the mean of agency, preparedness and
\* locationFreedom and 3 * readiness_score equals their sum,
\* community_interest_avg is the mean of the seven interest answers and
\* 7 * community_interest_avg equals their sum, and both lie in [1, 10].
C13_TimesCountIsSum ==
    \A i \in 1..Len(inserted) :
        LET fd == inserted[i].input
            a == inserted[i].row.attribute_scores
        IN  InScale(fd) =>
              /\ MeansInScale(fd, a)
              /\ TimesDenIs(a.readiness_score, ReadinessSum(fd))
              /\ TimesDenIs(a.community_interest_avg, InterestSum(fd))

\* The sums of seven answers within [1, 10] whose quotient by 7, multiplied
\* by 7 again, misses the sum by one unit in the last place.
InexactInterestSums == {29, 58, 61}

\* C13, amended: in every stored row built from Likert answers within
\* [1, 10] the two scalars are the doubles of the two means and lie in
\* [1, 10]; 3 * readiness_score equals the sum of its three answers, and
\* 7 * community_interest_avg equals the sum of the seven interest answers
\* unless that sum is 29, 58 or 61.
C13_DerivedScalarsAreMeans ==
    \A i \in 1..Len(inserted) :
        LET fd == inserted[i].input
            a == inserted[i].row.attribute_scores
        IN  InScale(fd) =>
              /\ MeansInScale(fd, a)
              /\ TimesDenIs(a.readiness_score, ReadinessSum(fd))
              /\ TimesDenIs(a.community_interest_avg, InterestSum(fd))
                    <=> InterestSum(fd) \notin InexactInterestSums

\* A stored row whose interest answers sum to 61 (techHub alone at 1 among
\* answers of 10): its community_interest_avg is the double of 61 / 7, and
\* 7 times it is not 61.
C13_Witness ==
    \E i \in 1..Len(inserted) :
        LET fd == inserted[i].input
            a == inserted[i].row.attribute_scores
        IN  /\ InScale(fd)
            /\ InterestSum(fd) = 61
            /\ RatEq(a.community_interest_avg, Rat(61, 7))
            /\ ~TimesDenIs(a.community_interest_avg, 61)
            /\ TimesDenIs(a.readiness_score, 30)

\* The required fields of a response that are empty or null.
MissingRequired(fd) == {f \in RequiredFields : ~TruthyVal(fd[f])}

\* C14: in every stored row completeness is 100 times the share of the 11
\* required fields that are non-empty, lies in [0, 100], and is (8 / 11) *
\* 100 when exactly 3 of the 11 are missing.
C14_CompletenessIsShareOfRequired ==
    \A i \in 1..Len(inserted) :
        LET fd == inserted[i].input
            c == inserted[i].row.quality_metrics.completeness
            filled == 11 - Cardinality(MissingRequired(fd))
        IN  /\ Cardinality(RequiredFields) = 11
            /\ RatEq(c, Rat(100 * filled, 11))
            /\ RatLeq(Whole(0), c) /\ RatLeq(c, Whole(100))
            /\ Cardinality(MissingRequired(fd)) = 3
                  => RatEq(c, Rat(8 * 100, 11))

\* A stored row of a response with exactly 3 required fields empty (email
\* among them) and completeness 800 / 11.
C14_Witness ==
    \E i \in 1..Len(inserted) :
        LET fd == inserted[i].input
        IN  /\ Cardinality(MissingRequired(fd)) = 3
            /\ fd["email"] = EmptyStr
            /\ RatEq(inserted[i].row.quality_metrics.completeness,
                     Rat(800, 11))

\* The length a free-text answer adds to the total: that of a string,
\* nothing for null.
StrLen(v) == IF IsString(v) THEN Len(v) ELSE 0

\* The total length of the eight free-text answers of a response.
TotalLength(fd) ==
    StrLen(fd["jobCareer"]) + StrLen(fd["lifeAchievements"])
    + StrLen(fd["dreamBuilding"]) + StrLen(fd["communitySpace"])
    + StrLen(fd["coreValues"]) + StrLen(fd["qualitiesSeek"])
    + StrLen(fd["dealBreakers"]) + StrLen(fd["skillsAbilities"])

\* C15 as stated: in every stored row response_length_avg is the mean
\* length over the free-text answers that are non-empty strings only, and
\* 0 when there is none.
C15_MeanOverNonEmptyAnswers ==
    \A i \in 1..Len(inserted) :
        LET fd == inserted[i].input
            avg == inserted[i].row.quality_metrics.response_length_avg
            nonEmpty == {f \in FreeTextFields : TruthyVal(fd[f])}
        IN  IF nonEmpty = {} THEN RatEq(avg, Whole(0))
            ELSE RatEq(avg, Rat(TotalLength(fd), Cardinality(nonEmpty)))

\* C15, amended: in every stored row response_length_avg is the mean
\* length over the free-text answers that are strings, the empty ones
\* included (an empty answer adds 0 to the total and 1 to the count), and
\* 0 when no answer is a string.
C15_MeanOverStringAnswers ==
    \A i \in 1..Len(inserted) :
        LET fd == inserted[i].input
            avg == inserted[i].row.quality_metrics.response_length_avg
            strings == {f \in FreeTextFields : IsString(fd[f])}
        IN  IF strings = {} THEN RatEq(avg, Whole(0))
            ELSE RatEq(avg, Rat(TotalLength(fd), Cardinality(strings)))

\* A stored row of a response with one answer of 20 characters and seven
\* empty answers: its response_length_avg is 20 / 8.
C15_Witness ==
    \E i \in 1..Len(inserted) :
        LET fd == inserted[i].input
        IN  /\ Cardinality({f \in FreeTextFields : fd[f] = EmptyStr}) = 7
            /\ Len(fd["dreamBuilding"]) = 20
            /\ RatEq(inserted[i].row.quality_metrics.response_length_avg,
                     Rat(20, 8))

\* The three pairs of answers compared by the consistency checks.
ConsistencyPairs ==
    {<<"startVillage", "offGridVillage">>,
     <<"spirituality", "spiritualCenter">>,
     <<"ambition", "businessStartup">>}

\* C16: in every stored row consistency_score is passed / 3 * 100, where a
\* pair (start village and off-grid interest, spirituality and spiritual
\* interest, ambition and business interest) passes exactly when its two
\* answers differ by at most 3; the score lies in [0, 100].
C16_ConsistencyIsShareOfPassedPairs ==
    \A i \in 1..Len(inserted) :
        LET fd == inserted[i].input
            s == inserted[i].row.quality_metrics.consistency_score
            passed == Cardinality({p \in ConsistencyPairs :
                          fd[p[1]] - fd[p[2]] \in -3..3})
        IN  /\ RatEq(s, Rat(passed * 100, 3))
            /\ RatLeq(Whole(0), s) /\ RatLeq(s, Whole(100))

\* A stored row of a response whose pairs differ by exactly 3, exactly 4
\* and 0: two pairs pass, and the score is 200 / 3.
C16_Witness ==
    \E i \in 1..Len(inserted) :
        LET fd == inserted[i].input
        IN  /\ fd["startVillage"] - fd["offGridVillage"] = 3
            /\ fd["spirituality"] - fd["spiritualCenter"] = 4
            /\ fd["ambition"] = fd["businessStartup"]
            /\ RatEq(inserted[i].row.quality_metrics.consistency_score,
                     Rat(200, 3))

RawScore(d) ==
    Rat(d.base_similarity.num
          + (d.alignment_bonus - d.alignment_penalty
             - d.opposition_penalty - d.age_penalty) * d.base_similarity.den,
        d.base_similarity.den)

\* The matches of the envelope, if one was produced.
ReturnedMatches ==
    IF rankOutput = NoEnvelope THEN {}
    ELSE {rankOutput.matches[i] : i \in 1..Len(rankOutput.matches)}

\* C18: for every MatchDetails of a returned envelope, final_score is
\* base_similarity + alignment_bonus - alignment_penalty
\* - opposition_penalty - age_penalty clamped to [0, 100]: it can be
\* rebuilt from the other stored fields and lies in [0, 100].
C18_FinalScoreIsClampedSum ==
    \A m \in ReturnedMatches :
        LET raw == RawScore(m.details)
            final == m.details.final_score
        IN  /\ RatLeq(Whole(0), final) /\ RatLeq(final, Whole(100))
            /\ RatLeq(raw, Whole(0)) => RatEq(final, Whole(0))
            /\ RatLeq(Whole(100), raw) => RatEq(final, Whole(100))
            /\ (RatLeq(Whole(0), raw) /\ RatLeq(raw, Whole(100)))
                  => RatEq(final, raw)
            /\ m.score = final

\* An envelope with a match whose sum exceeds 100 and is clamped to 100,
\* and a match whose sum is negative and is clamped to 0.
C18_Witness ==
    /\ \E m \in ReturnedMatches :
          /\ ~RatLeq(RawScore(m.details), Whole(100))
          /\ RatEq(m.details.final_score, Whole(100))
    /\ \E m \in ReturnedMatches :
          /\ ~RatLeq(Whole(0), RawScore(m.details))
          /\ RatEq(m.details.final_score, Whole(0))

\* The returned matches of a candidate with the subject's own vector and
\* the subject's own age.
SelfMatches ==
    {m \in ReturnedMatches :
        \E i \in 1..Len(rankInput.pool) :
            /\ rankInput.pool[i].id = m.user_id
            /\ rankInput.pool[i].vector = rankInput.subjectVector
            /\ rankInput.pool[i].age = rankInput.subjectAge}

\* Distance 0, similarity 100, age difference 0 and no age penalty.
NoDistanceNoAgePenalty(d) ==
    /\ d.weighted_distance = 0
    /\ RatEq(d.base_similarity, Whole(100))
    /\ d.age_difference = 0
    /\ d.age_penalty = 0

Qualifying ==
    {i \in 1..Len(rankInput.pool) :
        /\ rankInput.pool[i].id # rankInput.subjectId
        /\ RatLeq(Whole(rankInput.threshold),
                  score(rankInput.subjectVector, rankInput.pool[i].vector,
                        rankInput.subjectAge,
                        rankInput.pool[i].age).final_score)}

\* C20: a returned envelope has its matches sorted non-increasing by final
\* score, equal scores by ascending candidate id; every match reaches the
\* threshold; above_threshold is at least the number of matches; and when
\* no candidate qualifies the envelope is returned with no match.
C20_MatchesSortedAndAboveThreshold ==
    rankOutput # NoEnvelope =>
        LET ms == rankOutput.matches
        IN  /\ \A i \in 1..Len(ms) : \A j \in 1..Len(ms) :
                  i < j =>
                     /\ RatLeq(ms[j].score, ms[i].score)
                     /\ RatEq(ms[i].score, ms[j].score)
                           => ms[i].user_id < ms[j].user_id
            /\ \A i \in 1..Len(ms) :
                  RatLeq(Whole(rankInput.threshold), ms[i].score)
            /\ rankOutput.above_threshold >= Len(ms)
            /\ Qualifying = {} => ms = << >>

\* An envelope with two matches of equal score, returned in ascending order
\* of candidate id from a pool in which the higher id arrived first.
C20_Witness ==
    /\ rankOutput # NoEnvelope
    /\ Len(rankOutput.matches) = 2
    /\ RatEq(rankOutput.matches[1].score, rankOutput.matches[2].score)
    /\ rankOutput.matches[1].user_id < rankOutput.matches[2].user_id
    /\ rankInput.pool[1].id > rankInput.pool[2].id

\* The pool candidates other than the subject.
OtherCandidates ==
    {i \in 1..Len(rankInput.pool) :
        rankInput.pool[i].id # rankInput.subjectId}

\* What a returned envelope reports: the subject is in no match,
\* total_evaluated counts the candidates other than the subject,
\* above_threshold counts those of them that reach the threshold, whatever
\* the limit, and the number of matches is the smaller of the limit and
\* above_threshold.
EnvelopeCounts ==
    rankOutput # NoEnvelope =>
        /\ \A m \in ReturnedMatches : m.user_id # rankInput.subjectId
        /\ rankOutput.total_evaluated = Cardinality(OtherCandidates)
        /\ rankOutput.above_threshold = Cardinality(Qualifying)
        /\ Len(rankOutput.matches) =
              IF rankInput.limit < rankOutput.above_threshold
              THEN rankInput.limit ELSE rankOutput.above_threshold

\* C21: rank scores every pool candidate but the subject and reports the
\* counts above in its envelope, and no step changes the pool (nor any
\* other input of the run).
C21_RankCountsAndLeavesPool == [] EnvelopeCounts /\ [][rankInput' = rankInput]_vars

\* An envelope for a subject who is the first of the two pool candidates:
\* one candidate was scored, it qualifies, and it is the only match.
C21_Witness ==
    /\ rankOutput # NoEnvelope
    /\ Len(rankInput.pool) = 2
    /\ \E i \in 1..2 : rankInput.pool[i].id = rankInput.subjectId
    /\ rankOutput.total_evaluated = 1
    /\ rankOutput.above_threshold = 1
    /\ Len(rankOutput.matches) = 1
    /\ rankOutput.matches[1].user_id # rankInput.subjectId

(* ------------------- claims on delivery and the wizard ----------------- *)
\* The state of the delivery protocol the component is in: before a
\* successful submission, polling, ended with a match, or ended without
\* one (attempt ceiling or read error).
DeliveryState ==
    IF ~submitted THEN "SUBMITTING"
    ELSE IF processing THEN "PENDING_MATCH"
    ELSE IF matchData # NoEnvelope THEN "MATCHED"
    ELSE "ENDED_WITHOUT_MATCH"

DeliveryTransitions ==
    {<<"SUBMITTING", "PENDING_MATCH">>,
     <<"PENDING_MATCH", "MATCHED">>,
     <<"PENDING_MATCH", "ENDED_WITHOUT_MATCH">>}

\* C22: every step keeps the delivery state or takes one of the
\* transitions to PENDING_MATCH, from there to MATCHED, or from there to
\* the end without a match; once polling has ended (submitted, processing
\* false) processing stays false, no read is issued, pollAttempts keeps
\* its value, and a non-null matchData is never reset or replaced.
C22_DeliveryEndIsAbsorbing ==
    [][/\ DeliveryState' # DeliveryState
           => <<DeliveryState, DeliveryState'>> \in DeliveryTransitions
       /\ (submitted /\ ~processing)
           => /\ submitted' /\ ~processing'
              /\ readsIssued' = readsIssued
              /\ inFlightReads' = inFlightReads
              /\ timers' = timers
              /\ pollAttempts' = pollAttempts
       /\ matchData # NoEnvelope => matchData' = matchData]_vars

\* Polling has ended with a match, and afterwards the matcher has replaced
\* the envelope of the stored record: the component keeps the envelope it
\* read, with no timer armed and no read in flight.
C22_Witness ==
    /\ mounted /\ submitted /\ ~processing
    /\ matchData # NoEnvelope
    /\ userId \in 1..Len(store)
    /\ store[userId].user_matches # NoEnvelope
    /\ store[userId].user_matches # matchData
    /\ timers = NoTimers /\ inFlightReads = {}

(* ---------------------- the form with its ratings ---------------------- *)
\* Likert fields that may hold a clicked rating at a time.
MaxRatedFields == 1

\* A text the step validation accepts for a field.
ValidInput(f) ==
    CASE f = "email" -> <<"a", "@", "b", ".", "c">>
      [] f \in {"jobCareer", "lifeAchievements", "dreamBuilding",
                "communitySpace"} -> Text(MinDetailLength)
      [] OTHER -> <<"a">>

\* A rating button that hands on the number next to its own.
RatingValue_Shifted(num) == num + 1

\* onClick={() => onChange(num)}: the value a rating button hands on.
RatingValue(num) == num

\* Click on button num of the scale of Likert field f.
RatingClick(f, num) ==
    /\ currentStep = FieldStep(f)
    /\ \/ formData[f] # LikertDefault
       \/ Cardinality({g \in LikertFields : formData[g] # LikertDefault})
             < MaxRatedFields
    /\ updateFormData(f, RatingValue(num))

\* The form starts with empty texts and every rating at 5.
RatingInit ==
    /\ FormIdle
    /\ formData = InitialResponse
    /\ response = InitialResponse
    /\ PureIdle

RatingNext ==
    \/ \E f \in RequiredFields : updateFormData(f, ValidInput(f))
    \/ \E f \in LikertFields : \E num \in LikertScale : RatingClick(f, num)
    \/ handleNext
    \/ handleBack
    \/ handleSubmit

\* The user fills the form, rates, navigates and submits.
RatingSpec == RatingInit /\ [][RatingNext]_vars

\* C23: in every state of the form, whatever was clicked, typed or
\* navigated, each of the 18 Likert fields of formData holds an integer
\* from 1 to 10; so does the formData a submit click hands to
\* submitUserForm.
C23_RatingsStayInScale ==
    /\ \A f \in LikertFields : formData[f] \in 1..10
    /\ DOMAIN formData = RequiredFields \cup LikertFields

\* A submit click was made on the last step with empathy rated 10: the
\* response handed to submitUserForm holds 10 for empathy and 5 elsewhere.
C23_Witness ==
    /\ pendingInserts # {}
    /\ currentStep = totalSteps
    /\ formData["empathy"] = 10
    /\ \A f \in LikertFields \ {"empathy"} : formData[f] = 5

\* The steps before the current one all pass their validation.
EarlierStepsValid ==
    \A j \in 1..(currentStep - 1) : validateCurrentStep(j, formData) = "none"

\* The fields whose value a step changes.
ChangedFields == {f \in DOMAIN formData : formData'[f] # formData[f]}

\* A row built by submitUserForm has completeness 100 and none of its
\* eleven required answers is empty.
FullyAnswered(data) ==
    /\ RatEq(data.quality_metrics.completeness, Whole(100))
    /\ data.email # EmptyStr
    /\ data.first_name # EmptyStr
    /\ data.last_name # EmptyStr
    /\ \A k \in DOMAIN data.free_responses :
          data.free_responses[k] # EmptyStr

\* C24: currentStep stays within 1..6 and the steps before it hold valid
\* values; every record handed to the store and every stored record has
\* completeness 100 with all eleven required fields non-empty; a step
\* forward is by one and from a step that validates; a step back is by one
\* and raises no validation alert; a field changes only while its own step
\* is current; an insert is issued only from step 6.
C24_WizardInvariant ==
    /\ [](/\ currentStep \in 1..6
          /\ EarlierStepsValid
          /\ \A p \in pendingInserts : FullyAnswered(p.data)
          /\ \A i \in 1..Len(store) : FullyAnswered(store[i].data))
    /\ [][/\ currentStep' # currentStep
             => \/ /\ currentStep' = currentStep + 1
                   /\ validateCurrentStep(currentStep, formData) = "none"
                \/ /\ currentStep' = currentStep - 1
                   /\ lastAlert' = "none"
          /\ ChangedFields # {}
             => /\ \A f \in ChangedFields : FieldStep(f) = currentStep
                /\ currentStep' = currentStep
          /\ insertsIssued' # insertsIssued => currentStep = totalSteps]_vars

\* A record with completeness 100 is stored while the form, whose user
\* stepped back during the insert and emptied an answer of step 5, no
\* longer validates on that step.
C24_Witness ==
    /\ Len(store) = 1
    /\ FullyAnswered(store[1].data)
    /\ currentStep = 5
    /\ validateCurrentStep(5, formData) = "validation"
    /\ EarlierStepsValid

\* The read whose answer a step handles, if the step handles one.
ReturnedReads == inFlightReads \ inFlightReads'

\* A step handles the answer of a read that found the match field absent
\* with the attempts captured by the read below the ceiling.
ReadSaysAgain ==
    /\ pollLog' = "again"
    /\ \E r \in ReturnedReads :
          /\ r.userId \in 1..Len(store)
          /\ ~Truthy(store[r.userId].user_matches)
          /\ r.pollAttempts < maxAttempts
          /\ r.pollAttempts = pollAttempts

\* C25: at most one poll timer or read is outstanding and pollAttempts
\* stays within 0..20; after the timer that starts the polling, a timer is
\* armed only by the step that handles a read which found the match field
\* absent below the ceiling; pollAttempts changes only in such a step, by
\* exactly one, and every such step of a mounted form counts one attempt
\* and arms one timer.
C25_PollsNeverOverlap ==
    /\ [](/\ Cardinality(timers) + Cardinality(inFlightReads) <= 1
          /\ pollAttempts \in 0..20)
    /\ [][/\ timersArmed' # timersArmed
             => /\ timersArmed' = timersArmed + 1
                /\ Cardinality(timers') = 1
                /\ inFlightReads' = {}
                /\ \/ ~processing /\ processing' /\ timersArmed = 0
                   \/ ReadSaysAgain
          /\ pollAttempts' # pollAttempts
             => /\ pollAttempts' = pollAttempts + 1
                /\ ReadSaysAgain
          /\ (ReadSaysAgain /\ mounted)
             => /\ pollAttempts' = pollAttempts + 1
                /\ timersArmed' = timersArmed + 1]_vars

\* The last timer of a polling session is pending: twenty reads found no
\* match, the attempts are at the ceiling and nothing else is outstanding.
C25_Witness ==
    /\ mounted
    /\ processing
    /\ pollAttempts = maxAttempts
    /\ Cardinality(timers) = 1
    /\ inFlightReads = {}
    /\ timersArmed = maxAttempts + 1
    /\ pollLog = "again"

====
